---- MODULE Spec2Model ----
(***************************************************************************)
(* NFL confidence picks: the server's request handlers (src/server.js),    *)
(* the SQL statements they run (src/db/index.js) against the schema        *)
(* (src/unnamed/part_000), and the browser-side range calculator and pick  *)
(* validator (src/unnamed/part_001).                                       *)
(*                                                                         *)
(* server.js drives the statements through a synchronous prepared-         *)
(* statement interface (stmt.run / stmt.all / db.transaction); each        *)
(* statement is modelled by what its SQL in db/index.js does under the     *)
(* schema's keys and unique index, and db.transaction as BEGIN ... COMMIT  *)
(* with ROLLBACK when the body throws (the shape of runInTransaction).     *)
(* A handler runs to completion between two awaits, so one action is one   *)
(* such run; GET /api/games awaits the provider after it has read the      *)
(* store, so it is two actions.                                            *)
(***************************************************************************)
EXTENDS Integers, Sequences, FiniteSets, TLC

(*************************** bounds of the model ***************************)
\* requests (handler invocations) in one run
MaxRequests == 3
\* picks in one POST /api/picks body
MaxPicks == 2
\* GET /api/games requests of one week awaiting the provider at a time
MaxPending == 1
\* weeks of the season (the code sweeps 1..18)
NumWeeks == 2
\* game rows on the picks form
MaxRows == 2
\* runs of the hourly cron job
MaxSweeps == 2
\* games in the list the page loads for one week
MaxCount == 50

(************************* constants of the program ************************)
\* part_001:35  const start = 16
TopConfidence == 16
\* part_001:36  Math.max(1, 17 - n)
RangeAnchor == 17
\* part_001:36  Math.max(1, 17 - n)
MinConfidence == 1

Season == 2025
NULL == "null"
\* a score the provider left out (home.score == null)
NoScore == -1
\* an empty input of the picks form
Blank == -1
\* Math.min() and Math.max() of an empty list
PlusInfinity == 1000
MinusInfinity == -1000

Users == {"u1", "u2"}
Weeks == 1..NumWeeks
Sides == {"home", "away"}

(* The provider's schedule: which events a week has and who plays.  Week 1 *)
(* has two events, every later week one, so that one user can hold two     *)
(* picks in one period and a season has more than one period.              *)
EventSeq(w) == IF w = 1 THEN <<"e1", "e2">>
               ELSE IF w \in Weeks THEN << "e" \o ToString(w + 1) >> ELSE << >>
SeqRange(s) == {s[i] : i \in 1..Len(s)}
EventsOf(w) == SeqRange(EventSeq(w))
Events == UNION {EventsOf(w) : w \in Weeks}
HomeOf(e) == IF e = "e1" THEN "t1" ELSE IF e = "e2" THEN "t3" ELSE "t2"
AwayOf(e) == IF e = "e1" THEN "t2" ELSE IF e = "e2" THEN "t4" ELSE "t1"

\* confidence values a POST /api/picks body may carry: both are legal in the
\* two-event week, 15 is not in a one-event week
ConfInputs == (TopConfidence - 1)..TopConfidence

VARIABLES
  games,      \* table games: event_id -> row
  teams,      \* table teams: the espn_ids stored
  picks,      \* table picks: <<user, event_id>> -> row
  weekFetch,  \* table week_fetch: week -> which timestamps are set
  pending,    \* GET /api/games requests awaiting the provider, per week
  resp,       \* the last response sent: handler, status code, source line
  nreq,       \* requests handled so far
  req,        \* the last request, where the run keeps it on record
  form,       \* browser: the picks form, one row of two inputs per game
  verdict,    \* browser: what validatePicks last returned
  count,      \* browser: games.length, the games the page last loaded
  hint,       \* browser: the allowed numbers renderGames last showed
  sweep       \* cron: sweeps started, the week being refreshed, how the last
              \* week of the sweep went

vars == <<games, teams, picks, weekFetch, pending, resp, nreq, req, form, verdict, count, hint, sweep>>
store == <<games, teams, picks, weekFetch, pending, resp, nreq, req>>

Put(f, k, v) == [x \in DOMAIN f \cup {k} |-> IF x = k THEN v ELSE f[x]]

(******************************* the provider ******************************)
StatusNames == {"STATUS_SCHEDULED", "STATUS_IN_PROGRESS", "STATUS_FINAL"}

\* status.toUpperCase().includes('FINAL') / toLowerCase().includes('final')
IncludesFinal(status) == status \in {"STATUS_FINAL"}

\* an event before kickoff: the provider sends no scores
Scheduled == [status |-> "STATUS_SCHEDULED", home_score |-> NoScore, away_score |-> NoScore]

\* what the provider can say about one event: not started, under way with
\* the home side ahead, or final with a home win, an away win or a tie
Snapshots ==
  {Scheduled,
   [status |-> "STATUS_IN_PROGRESS", home_score |-> 1, away_score |-> 0],
   [status |-> "STATUS_FINAL", home_score |-> 1, away_score |-> 0],
   [status |-> "STATUS_FINAL", home_score |-> 0, away_score |-> 1],
   [status |-> "STATUS_FINAL", home_score |-> 1, away_score |-> 1]}

\* fetchWeekGames: the games of a week as the handlers see them
FetchWeekGames(w, raw) ==
  [i \in 1..Len(EventSeq(w)) |->
     [id |-> EventSeq(w)[i],
      status |-> raw[i].status,
      home |-> [id |-> HomeOf(EventSeq(w)[i]), score |-> raw[i].home_score],
      away |-> [id |-> AwayOf(EventSeq(w)[i]), score |-> raw[i].away_score]]]

ProviderAnswers(w) ==
  {FetchWeekGames(w, raw) : raw \in [1..Len(EventSeq(w)) -> Snapshots]}

\* the answer before any event of the week has started
ScheduleAnswers(w) ==
  {FetchWeekGames(w, [i \in 1..Len(EventSeq(w)) |-> Scheduled])}

\* an answer in which one event has lost a competitor: competitors.find
\* gives nothing, home is {} and home.id is undefined
BrokenAnswers(w) ==
  {[f EXCEPT ![i].home.id = NULL] : f \in ProviderAnswers(w), i \in 1..Len(EventSeq(w))}

\* x ?? 0
OrZero(x) == IF x = NoScore THEN 0 ELSE x

(******************************* statements ********************************)
\* upsertTeam
UpsertTeam(ts, id) == ts \cup {id}

\* upsertGame whose DO UPDATE reads status off the stored row, not off
\* excluded, when it sets the winner
UpsertGameByStoredStatus(gs, g) ==
  IF g.event_id \in DOMAIN gs
  THEN [gs EXCEPT ![g.event_id] =
          [season |-> @.season, week |-> @.week, status |-> g.status,
           home_team_id |-> g.home_team_id, away_team_id |-> g.away_team_id,
           home_score |-> g.home_score, away_score |-> g.away_score,
           winner_team_id |-> IF @.status = "post" THEN g.winner_team_id ELSE NULL]]
  ELSE Put(gs, g.event_id,
          [season |-> g.season, week |-> g.week, status |-> g.status,
           home_team_id |-> g.home_team_id, away_team_id |-> g.away_team_id,
           home_score |-> g.home_score, away_score |-> g.away_score,
           winner_team_id |-> g.winner_team_id])

\* upsertGame: insert, or on a known event_id overwrite everything but
\* season and week
UpsertGame(gs, g) ==
  IF g.event_id \in DOMAIN gs
  THEN [gs EXCEPT ![g.event_id] =
          [season |-> @.season, week |-> @.week, status |-> g.status,
           home_team_id |-> g.home_team_id, away_team_id |-> g.away_team_id,
           home_score |-> g.home_score, away_score |-> g.away_score,
           winner_team_id |-> g.winner_team_id]]
  ELSE Put(gs, g.event_id,
          [season |-> g.season, week |-> g.week, status |-> g.status,
           home_team_id |-> g.home_team_id, away_team_id |-> g.away_team_id,
           home_score |-> g.home_score, away_score |-> g.away_score,
           winner_team_id |-> g.winner_team_id])

\* home_team_id TEXT NOT NULL, away_team_id TEXT NOT NULL: the statement fails
NotNullFails(g) == g.home_team_id = NULL \/ g.away_team_id = NULL

\* getGamesByWeek: the games of the week whose two teams are in teams (JOIN)
GetGamesByWeek(gs, ts, season, week) ==
  {e \in DOMAIN gs : /\ gs[e].season = season
                     /\ gs[e].week = week
                     /\ gs[e].home_team_id \in ts
                     /\ gs[e].away_team_id \in ts}

\* upsertWeekFetch: COALESCE keeps a timestamp once set
UpsertWeekFetch(wf, week, sched, results) ==
  IF week \in DOMAIN wf
  THEN [wf EXCEPT ![week] = [sched |-> @.sched \/ sched, results |-> @.results \/ results]]
  ELSE Put(wf, week, [sched |-> sched, results |-> results])

\* the picks table without its unique index
NoUniqueIndex(pk, user, season, week, event_id, confidence) == FALSE

\* uniq_picks_user_week_conf: another row of the user, season and week
\* already holds the confidence
ConfidenceTaken(pk, user, season, week, event_id, confidence) ==
  \E k \in DOMAIN pk :
     /\ k[1] = user
     /\ k[2] # event_id
     /\ pk[k].season = season
     /\ pk[k].week = week
     /\ pk[k].confidence = confidence

\* upsertPick: insert, or on a known (user, event_id) overwrite team and
\* confidence; fails on the unique index
UpsertPick(pk, p) ==
  LET key == <<p.user, p.event_id>> IN
  IF key \in DOMAIN pk
  THEN IF ConfidenceTaken(pk, p.user, pk[key].season, pk[key].week, p.event_id, p.confidence)
       THEN [ok |-> FALSE, picks |-> pk]
       ELSE [ok |-> TRUE,
             picks |-> [pk EXCEPT ![key] =
                          [season |-> @.season, week |-> @.week,
                           picked_team_id |-> p.picked_team_id,
                           confidence |-> p.confidence]]]
  ELSE IF ConfidenceTaken(pk, p.user, p.season, p.week, p.event_id, p.confidence)
       THEN [ok |-> FALSE, picks |-> pk]
       ELSE [ok |-> TRUE,
             picks |-> Put(pk, key,
                          [season |-> p.season, week |-> p.week,
                           picked_team_id |-> p.picked_team_id,
                           confidence |-> p.confidence])]

(***************************** POST /api/picks *****************************)
PickInputs == [gameId : Events, pick : Sides, confidence : ConfInputs]
Bodies == UNION {[1..n -> PickInputs] : n \in 0..MaxPicks}

\* new Set(confidences).size !== confidences.length
HasDuplicateConfidence(body) ==
  \E i, j \in 1..Len(body) : i # j /\ body[i].confidence = body[j].confidence

\* the loop inside db.transaction, from pick i on; stops at the first
\* statement that throws.  written counts the statements that ran from i on
\* without throwing.
RECURSIVE WritePicks(_, _, _, _, _, _, _)
WritePicks(pk, gs, byId, user, week, body, i) ==
  IF i > Len(body) THEN [ok |-> TRUE, picks |-> pk, written |-> 0]
  ELSE LET p == body[i] IN
       IF p.gameId \notin byId
       THEN WritePicks(pk, gs, byId, user, week, body, i + 1)
       ELSE LET r == gs[p.gameId]
                teamId == IF p.pick = "home" THEN r.home_team_id ELSE r.away_team_id
                res == UpsertPick(pk, [user |-> user, season |-> Season, week |-> week,
                                       event_id |-> p.gameId, picked_team_id |-> teamId,
                                       confidence |-> p.confidence])
                rest == WritePicks(res.picks, gs, byId, user, week, body, i + 1)
            IN IF res.ok
               THEN [rest EXCEPT !.written = @ + 1]
               ELSE [ok |-> FALSE, picks |-> pk, written |-> 0]

\* the loop run outside a transaction: the writes before the throw stay
TransactionNoRollback(pk, gs, byId, user, week, body) ==
  WritePicks(pk, gs, byId, user, week, body, 1)

\* db.transaction(fn)(picks): all of the loop's writes, or none when it throws
Transaction(pk, gs, byId, user, week, body) ==
  LET res == WritePicks(pk, gs, byId, user, week, body, 1) IN
  IF res.ok THEN res ELSE [res EXCEPT !.picks = pk]

PostPicks(user, week, body) ==
  /\ nreq < MaxRequests
  /\ nreq' = nreq + 1
  /\ UNCHANGED <<games, teams, weekFetch, pending, form, verdict, count, hint, sweep>>
  /\ IF HasDuplicateConfidence(body)
     THEN /\ resp' = [op |-> "postPicks", code |-> 400, line |-> 155]
          /\ UNCHANGED picks
     ELSE LET byId == GetGamesByWeek(games, teams, Season, week)
              res == Transaction(picks, games, byId, user, week, body)
          IN /\ picks' = res.picks
             /\ resp' = IF res.ok
                        THEN [op |-> "postPicks", code |-> 200, line |-> 169]
                        ELSE [op |-> "postPicks", code |-> 400, line |-> 173,
                              written |-> res.written]

\* user, season, week or picks missing from the body
PostPicksRefused ==
  /\ nreq < MaxRequests
  /\ nreq' = nreq + 1
  /\ resp' = [op |-> "postPicks", code |-> 400, line |-> 148]
  /\ UNCHANGED <<games, teams, picks, weekFetch, pending, req, form, verdict, count, hint, sweep>>

(****************************** GET /api/games *****************************)
\* up to the await: a missing week is refused, a week with rows is served
\* from the store, any other week is asked of the provider
GetGamesStart(week) ==
  /\ nreq < MaxRequests
  /\ nreq' = nreq + 1
  /\ UNCHANGED <<games, teams, picks, weekFetch, req, form, verdict, count, hint, sweep>>
  /\ IF week = 0
     THEN /\ resp' = [op |-> "getGames", code |-> 400, line |-> 96]
          /\ UNCHANGED pending
     ELSE IF GetGamesByWeek(games, teams, Season, week) # {}
     THEN /\ resp' = [op |-> "getGames", code |-> 200, line |-> 137]
          /\ UNCHANGED pending
     ELSE /\ pending[week] < MaxPending
          /\ pending' = [pending EXCEPT ![week] = @ + 1]
          /\ UNCHANGED resp

\* the loop after the await, from game i on
RECURSIVE StoreSchedule(_, _, _, _, _)
StoreSchedule(gs, ts, week, fetched, i) ==
  IF i > Len(fetched) THEN [games |-> gs, teams |-> ts]
  ELSE LET g == fetched[i]
           status == IF IncludesFinal(g.status) THEN "post" ELSE "pre"
       IN StoreSchedule(
            UpsertGame(gs, [event_id |-> g.id, season |-> Season, week |-> week,
                            status |-> status,
                            home_team_id |-> g.home.id, away_team_id |-> g.away.id,
                            home_score |-> OrZero(g.home.score),
                            away_score |-> OrZero(g.away.score),
                            winner_team_id |-> NULL]),
            UpsertTeam(UpsertTeam(ts, g.home.id), g.away.id),
            week, fetched, i + 1)

GetGamesFetched(week, fetched) ==
  /\ pending[week] > 0
  /\ pending' = [pending EXCEPT ![week] = @ - 1]
  /\ LET st == StoreSchedule(games, teams, week, fetched, 1) IN
       /\ games' = st.games
       /\ teams' = st.teams
  /\ weekFetch' = UpsertWeekFetch(weekFetch, week, TRUE, FALSE)
  /\ resp' = [op |-> "getGames", code |-> 200, line |-> 137]
  /\ UNCHANGED <<picks, nreq, req, form, verdict, count, hint, sweep>>

\* the provider timed out or sent something unreadable
GetGamesFailed(week) ==
  /\ pending[week] > 0
  /\ pending' = [pending EXCEPT ![week] = @ - 1]
  /\ resp' = [op |-> "getGames", code |-> 500, line |-> 140]
  /\ UNCHANGED <<games, teams, picks, weekFetch, nreq, req, form, verdict, count, hint, sweep>>

(************************* POST /api/update-results ************************)
\* the winner read off the scores alone, whatever the status
WinnerIgnoringStatus(final, homeScore, awayScore, g) ==
  IF homeScore = awayScore THEN NULL
  ELSE IF homeScore > awayScore THEN g.home.id ELSE g.away.id

\* line 219
WinnerTeamId(final, homeScore, awayScore, g) ==
  IF final
  THEN IF homeScore = awayScore THEN NULL
       ELSE IF homeScore > awayScore THEN g.home.id ELSE g.away.id
  ELSE NULL

\* the loop of updateResults, from game i on; it stops, keeping what it has
\* written, at the first statement that throws
RECURSIVE StoreResults(_, _, _, _, _)
StoreResults(gs, results, week, fetched, i) ==
  IF i > Len(fetched) THEN [ok |-> TRUE, games |-> gs, results |-> results]
  ELSE LET g == fetched[i]
           final == IncludesFinal(g.status)
           homeScore == OrZero(g.home.score)
           awayScore == OrZero(g.away.score)
           winnerTeamId == WinnerTeamId(final, homeScore, awayScore, g)
           row == [event_id |-> g.id, season |-> Season, week |-> week,
                   status |-> IF final THEN "post" ELSE "in",
                   home_team_id |-> g.home.id, away_team_id |-> g.away.id,
                   home_score |-> homeScore, away_score |-> awayScore,
                   winner_team_id |-> winnerTeamId]
       IN IF NotNullFails(row)
          THEN [ok |-> FALSE, games |-> gs, results |-> results]
          ELSE StoreResults(
                 UpsertGame(gs, row),
                 IF final /\ winnerTeamId # NULL
                 THEN Put(results, g.id, IF winnerTeamId = g.home.id THEN "home" ELSE "away")
                 ELSE results,
                 week, fetched, i + 1)

\* updateResults once the provider has answered
UpdateResults(gs, week, fetched) == StoreResults(gs, << >>, week, fetched, 1)

\* the provider answers: 200 with the results, or 500 when a statement of
\* the loop throws
PostUpdateResults(week, fetched) ==
  /\ nreq < MaxRequests
  /\ nreq' = nreq + 1
  /\ LET r == UpdateResults(games, week, fetched) IN
       /\ games' = r.games
       /\ resp' = IF r.ok
                  THEN [op |-> "updateResults", code |-> 200, line |-> 247,
                        week |-> week, results |-> r.results]
                  ELSE [op |-> "updateResults", code |-> 500, line |-> 246]
       /\ weekFetch' = IF r.ok THEN UpsertWeekFetch(weekFetch, week, FALSE, TRUE)
                       ELSE weekFetch
  /\ UNCHANGED <<teams, picks, pending, form, verdict, count, hint, sweep>>

PostUpdateResultsRefused ==
  /\ nreq < MaxRequests
  /\ nreq' = nreq + 1
  /\ resp' = [op |-> "updateResults", code |-> 400, line |-> 244]
  /\ UNCHANGED <<games, teams, picks, weekFetch, pending, req, form, verdict, count, hint, sweep>>

\* updateResults when the request to the provider fails: caught, null, 500
PostUpdateResultsFailed(week) ==
  /\ nreq < MaxRequests
  /\ nreq' = nreq + 1
  /\ resp' = [op |-> "updateResults", code |-> 500, line |-> 246]
  /\ UNCHANGED <<games, teams, picks, weekFetch, pending, req, form, verdict, count, hint, sweep>>

(********************************* the cron ********************************)
\* the job fires and enters its loop at week 1
CronTick ==
  /\ sweep.week = 0
  /\ sweep.runs < MaxSweeps
  /\ sweep' = [runs |-> sweep.runs + 1, week |-> 1, last |-> "none"]
  /\ UNCHANGED <<games, teams, picks, weekFetch, pending, resp, nreq, req,
                 form, verdict, count, hint>>

\* the loop goes on to the next week, or ends after the last
NextWeek(week) == IF week < NumWeeks THEN week + 1 ELSE 0

\* await updateResults(season, week) when the provider answers: the loop of
\* updateResults runs, to its end or to the statement that throws; the
\* catch returns null and the sweep goes on
SweepUpdated(fetched) ==
  /\ sweep.week # 0
  /\ LET r == UpdateResults(games, sweep.week, fetched) IN
       /\ games' = r.games
       /\ weekFetch' = IF r.ok THEN UpsertWeekFetch(weekFetch, sweep.week, FALSE, TRUE)
                       ELSE weekFetch
       /\ sweep' = [sweep EXCEPT !.week = NextWeek(@),
                                 !.last = IF r.ok THEN "refreshed" ELSE "failed"]
  /\ UNCHANGED <<teams, picks, pending, resp, nreq, req, form, verdict, count, hint>>

\* await updateResults(season, week) when the request to the provider fails
SweepFetchFailed ==
  /\ sweep.week # 0
  /\ sweep' = [sweep EXCEPT !.week = NextWeek(@), !.last = "failed"]
  /\ UNCHANGED <<games, teams, picks, weekFetch, pending, resp, nreq, req,
                 form, verdict, count, hint>>

(***************************** GET /api/scoreboard **************************)
\* getAllPicksByWeek
GetAllPicksByWeek(pk, season, week) ==
  {k \in DOMAIN pk : pk[k].season = season /\ pk[k].week = week}

\* SELECT event_id, winner_team_id FROM games WHERE season=? AND week=?
GetWinnersByWeek(gs, season, week) ==
  [e \in {x \in DOMAIN gs : gs[x].season = season /\ gs[x].week = week} |->
     gs[e].winner_team_id]

\* every pick on a decided event is credited
CreditedWhateverPicked(winTeam, p) == TRUE

\* line 206: the pick is on the winner
Credited(winTeam, p) == winTeam = p.picked_team_id

\* the loop over the week's picks, one row at a time
RECURSIVE Tally(_, _, _, _)
Tally(pk, rows, winners, totals) ==
  IF rows = {} THEN totals
  ELSE LET k == CHOOSE x \in rows : TRUE
           p == pk[k]
           user == k[1]
           rest == rows \ {k}
       IN IF k[2] \notin DOMAIN winners \/ winners[k[2]] = NULL
          THEN Tally(pk, rest, winners, totals)
          ELSE LET zeroed == IF user \notin DOMAIN totals \/ totals[user] = 0
                             THEN Put(totals, user, 0) ELSE totals
               IN Tally(pk, rest, winners,
                        IF Credited(winners[k[2]], p)
                        THEN [zeroed EXCEPT ![user] = @ + p.confidence]
                        ELSE zeroed)

\* the scores of the response
Scoreboard(week) ==
  Tally(picks, GetAllPicksByWeek(picks, Season, week),
        GetWinnersByWeek(games, Season, week), << >>)

(****************************** getSeasonTotals *****************************)
RECURSIVE SumConfidence(_, _)
SumConfidence(pk, rows) ==
  IF rows = {} THEN 0
  ELSE LET k == CHOOSE x \in rows : TRUE
       IN pk[k].confidence + SumConfidence(pk, rows \ {k})

\* the rows the JOIN and the WHERE keep
SeasonRows(gs, pk, season) ==
  {k \in DOMAIN pk :
     /\ k[2] \in DOMAIN gs
     /\ gs[k[2]].season = pk[k].season
     /\ pk[k].season = season
     /\ gs[k[2]].status = "post"
     /\ \/ (gs[k[2]].home_team_id = pk[k].picked_team_id
            /\ gs[k[2]].home_score > gs[k[2]].away_score)
        \/ (gs[k[2]].away_team_id = pk[k].picked_team_id
            /\ gs[k[2]].away_score > gs[k[2]].home_score)}

\* GROUP BY p.user, SUM(p.confidence)
GetSeasonTotals(gs, pk, season) ==
  LET rows == SeasonRows(gs, pk, season) IN
  [u \in {k[1] : k \in rows} |-> SumConfidence(pk, {k \in rows : k[1] = u})]

(************************** browser: the picks form *************************)
Max(a, b) == IF a > b THEN a ELSE b

\* confidenceRangeForCount: 16 down to max(1, 17 - n)
RECURSIVE RangeFrom(_, _)
RangeFrom(v, min) == IF v >= min THEN <<v>> \o RangeFrom(v - 1, min) ELSE << >>
\* the range without the floor of 1: 16 down to 17 - n
ConfidenceRangeUnclamped(n) == RangeFrom(TopConfidence, RangeAnchor - n)
\* the range anchored one too low: 16 down to max(1, 16 - n)
ConfidenceRangeAnchoredAtTop(n) ==
  RangeFrom(TopConfidence, Max(MinConfidence, TopConfidence - n))
ConfidenceRangeForCount(n) == RangeFrom(TopConfidence, Max(MinConfidence, RangeAnchor - n))

\* Math.min(...range), Math.max(...range)
RECURSIVE MinOf(_, _)
MinOf(range, i) ==
  IF i > Len(range) THEN PlusInfinity
  ELSE LET m == MinOf(range, i + 1) IN IF range[i] < m THEN range[i] ELSE m
RECURSIVE MaxOf(_, _)
MaxOf(range, i) ==
  IF i > Len(range) THEN MinusInfinity
  ELSE LET m == MaxOf(range, i + 1) IN IF range[i] > m THEN range[i] ELSE m

\* getPicksFromUI: the rows with exactly one input filled, from row i on
RECURSIVE GetPicksFromUI(_, _)
GetPicksFromUI(rows, i) ==
  IF i > Len(rows) THEN << >>
  ELSE LET homeVal == rows[i].home
           awayVal == rows[i].away
       IN (IF homeVal # Blank /\ awayVal = Blank
           THEN << [gameId |-> i, pick |-> "home", confidence |-> homeVal] >> ELSE << >>)
          \o (IF awayVal # Blank /\ homeVal = Blank
              THEN << [gameId |-> i, pick |-> "away", confidence |-> awayVal] >> ELSE << >>)
          \o GetPicksFromUI(rows, i + 1)

Accepted == [error |-> "none", min |-> 0, max |-> 0]
OneTeamPerGame == [error |-> "Choose only one team per game.", min |-> 0, max |-> 0]
OnlyOnce == [error |-> "Each confidence value must appear only once.", min |-> 0, max |-> 0]
Between(min, max) == [error |-> "Confidence must be between min and max.", min |-> min, max |-> max]

\* the range loop of validatePicks, from value i on
RECURSIVE RangeCheck(_, _, _, _)
RangeCheck(values, min, max, i) ==
  IF i > Len(values) THEN Accepted
  ELSE IF values[i].confidence < min \/ values[i].confidence > max
       THEN Between(min, max)
       ELSE RangeCheck(values, min, max, i + 1)

\* validatePicks with the range loop ahead of the duplicate check
ValidatePicksRangeFirst(rows) ==
  LET range == ConfidenceRangeForCount(Len(rows))
      values == GetPicksFromUI(rows, 1)
      ranged == RangeCheck(values, MinOf(range, 1), MaxOf(range, 1), 1)
  IN IF \E i \in 1..Len(rows) : rows[i].home # Blank /\ rows[i].away # Blank
     THEN OneTeamPerGame
     ELSE IF ranged # Accepted THEN ranged
     ELSE IF Cardinality({values[i].confidence : i \in 1..Len(values)}) # Len(values)
     THEN OnlyOnce
     ELSE Accepted

\* validatePicks(getPicksFromUI()) on a form of Len(rows) games
ValidatePicks(rows) ==
  LET range == ConfidenceRangeForCount(Len(rows))
      min == MinOf(range, 1)
      max == MaxOf(range, 1)
      values == GetPicksFromUI(rows, 1)
  IN IF \E i \in 1..Len(rows) : rows[i].home # Blank /\ rows[i].away # Blank
     THEN OneTeamPerGame
     ELSE IF Cardinality({values[i].confidence : i \in 1..Len(values)}) # Len(values)
     THEN OnlyOnce
     ELSE RangeCheck(values, min, max, 1)

\* renderGames: the allowed numbers are shown and the form gets one row of
\* two empty inputs per game
RenderGames ==
  /\ ~hint.rendered
  /\ hint' = [rendered |-> TRUE, range |-> ConfidenceRangeForCount(count)]
  /\ form' = [i \in 1..count |-> [home |-> Blank, away |-> Blank]]
  /\ UNCHANGED <<store, verdict, count, sweep>>

\* what a form input may hold: nothing, or a number around the legal values
FormValues == {Blank} \cup ((TopConfidence - MaxRows)..(TopConfidence + 1))
Forms == UNION {[1..n -> [home : FormValues, away : FormValues]] : n \in 0..MaxRows}

\* Save: the form is validated
SavePicks ==
  /\ ~verdict.checked
  /\ verdict' = [checked |-> TRUE, result |-> ValidatePicks(form)]
  /\ UNCHANGED <<store, form, count, hint, sweep>>

(****************************** specification ******************************)
Init ==
  /\ games = << >>
  /\ teams = {}
  /\ picks = << >>
  /\ weekFetch = << >>
  /\ pending = [w \in Weeks |-> 0]
  /\ resp = [op |-> "none", code |-> 0, line |-> 0]
  /\ nreq = 0
  /\ req = [logged |-> FALSE]
  /\ form = << >>
  /\ verdict = [checked |-> FALSE]
  /\ count = 0
  /\ hint = [rendered |-> FALSE]
  /\ sweep = [runs |-> 0, week |-> 0, last |-> "none"]

Next ==
  \/ \E u \in Users, w \in Weeks, b \in Bodies : PostPicks(u, w, b) /\ UNCHANGED req
  \/ PostPicksRefused
  \/ \E w \in {0} \cup Weeks : GetGamesStart(w)
  \/ \E w \in Weeks : \E f \in ProviderAnswers(w) : GetGamesFetched(w, f)
  \/ \E w \in Weeks : GetGamesFailed(w)
  \/ \E w \in Weeks :
        \E f \in ProviderAnswers(w) \cup BrokenAnswers(w) :
           PostUpdateResults(w, f) /\ UNCHANGED req
  \/ PostUpdateResultsRefused
  \/ \E w \in Weeks : PostUpdateResultsFailed(w)

Spec == Init /\ [][Next]_vars

(* Pick submission on record.  The bodies are shaped like the form's: picks *)
(* of the posted week in row order, at most one per game, any side and any *)
(* value.  Submission reads event ids and team ids only, so the provider   *)
(* reports the schedule before kickoff and nothing else.                   *)
RECURSIVE FormBodiesFrom(_, _)
FormBodiesFrom(w, i) ==
  IF i > Len(EventSeq(w)) THEN {<< >>}
  ELSE LET rest == FormBodiesFrom(w, i + 1) IN
       rest \cup {<<p>> \o r : p \in [gameId : {EventSeq(w)[i]}, pick : Sides,
                                      confidence : ConfInputs],
                               r \in rest}

NextLogged ==
  \/ \E u \in Users, w \in Weeks :
        \E b \in FormBodiesFrom(w, 1) :
           PostPicks(u, w, b) /\ req' = [logged |-> TRUE, user |-> u, week |-> w, body |-> b]
  \/ PostPicksRefused
  \/ \E w \in {0} \cup Weeks : GetGamesStart(w)
  \/ \E w \in Weeks : \E f \in ScheduleAnswers(w) : GetGamesFetched(w, f)
  \/ \E w \in Weeks : GetGamesFailed(w)

SpecLogged == Init /\ [][NextLogged]_vars

(* Refreshes on record.  The run starts with an empty store or after the   *)
(* schedule of some weeks has been loaded by GET /api/games before kickoff; *)
(* users submit picks and results are refreshed from well-formed answers.  *)
(* again says that the refresh repeats, with the same answer of the         *)
(* provider, the successful refresh that sent the last response.            *)
RECURSIVE ScheduleLoaded(_, _)
ScheduleLoaded(ws, w) ==
  IF w = 0 THEN [games |-> << >>, teams |-> {}, weekFetch |-> << >>]
  ELSE LET st == ScheduleLoaded(ws, w - 1) IN
       IF w \notin ws THEN st
       ELSE LET f == CHOOSE a \in ScheduleAnswers(w) : TRUE
                ld == StoreSchedule(st.games, st.teams, w, f, 1)
            IN [games |-> ld.games, teams |-> ld.teams,
                weekFetch |-> UpsertWeekFetch(st.weekFetch, w, TRUE, FALSE)]

InitRefresh ==
  /\ \E ws \in SUBSET Weeks :
        LET st == ScheduleLoaded(ws, NumWeeks) IN
        /\ games = st.games
        /\ teams = st.teams
        /\ weekFetch = st.weekFetch
  /\ picks = << >>
  /\ pending = [w \in Weeks |-> 0]
  /\ resp = [op |-> "none", code |-> 0, line |-> 0]
  /\ nreq = 0
  /\ req = [logged |-> FALSE]
  /\ form = << >>
  /\ verdict = [checked |-> FALSE]
  /\ count = 0
  /\ hint = [rendered |-> FALSE]
  /\ sweep = [runs |-> 0, week |-> 0, last |-> "none"]

NextRefresh ==
  \/ \E u \in Users, w \in Weeks :
        \E b \in FormBodiesFrom(w, 1) : PostPicks(u, w, b) /\ UNCHANGED req
  \/ \E w \in Weeks :
        \E f \in ProviderAnswers(w) :
           /\ PostUpdateResults(w, f)
           /\ req' = [logged |-> TRUE, week |-> w, fetched |-> f,
                      again |-> /\ resp.op = "updateResults"
                                /\ resp.code = 200
                                /\ req.logged
                                /\ req.week = w
                                /\ req.fetched = f]
  \/ \E w \in Weeks : PostUpdateResultsFailed(w)
  \/ \E w \in Weeks : GetGamesStart(w)
  \/ \E w \in Weeks : \E f \in ScheduleAnswers(w) : GetGamesFetched(w, f)
  \/ \E w \in Weeks : GetGamesFailed(w)

SpecRefresh == InitRefresh /\ [][NextRefresh]_vars

(* The cron job alone: hourly sweeps over the weeks of the season.          *)
NextSweep ==
  \/ CronTick
  \/ \E f \in ProviderAnswers(sweep.week) \cup BrokenAnswers(sweep.week) : SweepUpdated(f)
  \/ SweepFetchFailed

SpecSweep == Init /\ [][NextSweep]_vars

(* The browser alone: any form the page can show, then Save.               *)
InitForm ==
  /\ games = << >>
  /\ teams = {}
  /\ picks = << >>
  /\ weekFetch = << >>
  /\ pending = [w \in Weeks |-> 0]
  /\ resp = [op |-> "none", code |-> 0, line |-> 0]
  /\ nreq = 0
  /\ req = [logged |-> FALSE]
  /\ form \in Forms
  /\ verdict = [checked |-> FALSE]
  /\ count = Len(form)
  /\ hint = [rendered |-> TRUE, range |-> ConfidenceRangeForCount(count)]
  /\ sweep = [runs |-> 0, week |-> 0, last |-> "none"]

NextForm == SavePicks

SpecForm == InitForm /\ [][NextForm]_vars

(* The range calculator alone: the page has loaded a list of any length and *)
(* renders it.                                                             *)
InitRange ==
  /\ games = << >>
  /\ teams = {}
  /\ picks = << >>
  /\ weekFetch = << >>
  /\ pending = [w \in Weeks |-> 0]
  /\ resp = [op |-> "none", code |-> 0, line |-> 0]
  /\ nreq = 0
  /\ req = [logged |-> FALSE]
  /\ form = << >>
  /\ verdict = [checked |-> FALSE]
  /\ count \in 0..MaxCount
  /\ hint = [rendered |-> FALSE]
  /\ sweep = [runs |-> 0, week |-> 0, last |-> "none"]

NextRange == RenderGames

SpecRange == InitRange /\ [][NextRange]_vars

(********************************* claims **********************************)
\* the picks a user has stored for a week
PicksOf(user, week) ==
  {k \in DOMAIN picks : k[1] = user /\ picks[k].season = Season /\ picks[k].week = week}

\* the legal confidence values of a period of n events: max(1, 17-n) .. 16
LegalValues(n) == {v \in 1..16 : v >= 17 - n}

\* C1: for every (user, season, period) the confidence values of the stored
\* picks are pairwise distinct, whatever submissions were accepted or rejected.
C1_DistinctConfidence ==
  \A k1, k2 \in DOMAIN picks :
     (/\ k1 # k2
      /\ k1[1] = k2[1]
      /\ picks[k1].season = picks[k2].season
      /\ picks[k1].week = picks[k2].week)
     => picks[k1].confidence # picks[k2].confidence

\* a user holds two picks in one week and the storage has just refused a
\* submission that would have repeated a confidence value
C1_Witness ==
  /\ resp.op = "postPicks"
  /\ resp.line = 173
  /\ \E u \in Users, w \in Weeks : Cardinality(PicksOf(u, w)) = 2

\* the submission on record carries a value outside the legal values of its
\* period, counted on the events the period has stored
OutOfRangeOnRecord ==
  /\ req.logged
  /\ \E i \in 1..Len(req.body) :
        req.body[i].confidence \notin
          LegalValues(Cardinality(DOMAIN GetWinnersByWeek(games, Season, req.week)))

\* C2: a submission with a confidence value outside the legal range of the
\* period is answered 400 and stores nothing.  Stated for periods that have
\* stored events.
C2_OutOfRangeRejected ==
  [][(/\ nreq' # nreq
      /\ resp'.op = "postPicks"
      /\ OutOfRangeOnRecord'
      /\ GetGamesByWeek(games, teams, Season, req'.week) # {})
     => (resp'.code = 400 /\ picks' = picks)]_vars

\* C3: a submission that ends in a rejection or an error leaves the stored
\* picks exactly as they were.
C3_RejectedLeavesPicks ==
  [][(resp'.op = "postPicks" /\ resp'.code # 200 /\ nreq' # nreq)
       => picks' = picks]_vars

\* the storage refused a statement after an earlier statement of the same
\* submission had been written
C3_Witness ==
  /\ resp.op = "postPicks"
  /\ resp.line = 173
  /\ resp.written > 0

\* the submission on record passes the validator's three rules and names
\* only events the period lookup returns
ValidOnRecord ==
  /\ req.logged
  /\ LET b == req.body
         events == GetGamesByWeek(games, teams, Season, req.week)
     IN /\ Len(b) > 0
        /\ \A i \in 1..Len(b) : b[i].gameId \in events
        /\ \A i, j \in 1..Len(b) : i # j => b[i].gameId # b[j].gameId
        /\ \A i, j \in 1..Len(b) : i # j => b[i].confidence # b[j].confidence
        /\ \A i \in 1..Len(b) : b[i].confidence \in LegalValues(Cardinality(events))

\* every pick of the submission on record is stored as submitted
StoredAsSubmitted ==
  \A i \in 1..Len(req.body) :
     LET p == req.body[i]
         key == <<req.user, p.gameId>>
     IN /\ key \in DOMAIN picks
        /\ picks[key].confidence = p.confidence
        /\ picks[key].picked_team_id =
             (IF p.pick = "home" THEN games[p.gameId].home_team_id
              ELSE games[p.gameId].away_team_id)

\* the submission on record names every event of the period the user holds
\* a pick on, so no pick it leaves alone can hold one of its values
CoversStoredPicks ==
  \A k \in PicksOf(req.user, req.week) :
     \E i \in 1..Len(req.body) : req.body[i].gameId = k[2]

\* C4: a valid pick set on stored events is accepted and overwrites: every
\* submitted (user, event) afterwards carries the submitted team and
\* confidence, whatever the user had stored before.  Stated for the
\* resubmissions that replace every pick the user holds in the period.
C4_ResubmissionOverwrites ==
  (resp.op = "postPicks" /\ resp.line # 148 /\ ValidOnRecord /\ CoversStoredPicks)
     => (resp.code = 200 /\ StoredAsSubmitted)

\* C5: a stored event has a winner if and only if it is final and its
\* scores differ.
C5_WinnerIffDecided ==
  \A e \in DOMAIN games :
     (games[e].winner_team_id # NULL)
       <=> (games[e].status = "post" /\ games[e].home_score # games[e].away_score)

\* C6: the period scoreboard lists every user with a stored pick in the
\* period, with total 0 when none of the user's picks is credited.
C6_EveryPickerListed ==
  \A w \in Weeks, u \in Users :
     PicksOf(u, w) # {} =>
        /\ u \in DOMAIN Scoreboard(w)
        /\ ((\A k \in PicksOf(u, w) : games[k[2]].winner_team_id # picks[k].picked_team_id)
              => Scoreboard(w)[u] = 0)

\* the user's picks of the week that are on the stored winner of their event
WinningPicks(u, w) ==
  {k \in PicksOf(u, w) :
     /\ k[2] \in DOMAIN games
     /\ games[k[2]].winner_team_id # NULL
     /\ games[k[2]].winner_team_id = picks[k].picked_team_id}

\* C7: a user's total on the period scoreboard is the sum of the confidence
\* values of exactly the user's picks on the winner of their event; picks on
\* tied or undecided events add nothing.
C7_TotalIsCreditedSum ==
  \A w \in Weeks :
     \A u \in DOMAIN Scoreboard(w) :
        Scoreboard(w)[u] = SumConfidence(picks, WinningPicks(u, w))

\* a user on the scoreboard holds a credited pick and, in the same week, a
\* pick on the loser of a decided event and is scored on the first alone
C7_Witness ==
  \E w \in Weeks : \E u \in DOMAIN Scoreboard(w) :
     /\ Scoreboard(w)[u] > 0
     /\ \E k \in PicksOf(u, w) :
          /\ games[k[2]].winner_team_id # NULL
          /\ games[k[2]].winner_team_id # picks[k].picked_team_id

\* a total read off a scoreboard or off the season query, 0 when the user
\* is not listed
TotalOf(totals, u) == IF u \in DOMAIN totals THEN totals[u] ELSE 0

RECURSIVE SumOverWeeks(_, _)
SumOverWeeks(u, w) ==
  IF w = 0 THEN 0 ELSE TotalOf(Scoreboard(w), u) + SumOverWeeks(u, w - 1)

\* C8: each user's season total is the sum of the user's period totals over
\* the periods of the season.
C8_SeasonIsSumOfPeriods ==
  \A u \in Users :
     TotalOf(GetSeasonTotals(games, picks, Season), u) = SumOverWeeks(u, NumWeeks)

\* C9: after a refresh every event of the period is resolved by the rule:
\* undecided (no winner, no entry in the results) unless final; tied (no
\* winner, no entry) when final with equal scores; otherwise the side with
\* the higher score.
C9_ResolverRule ==
  (resp.op = "updateResults" /\ resp.code = 200) =>
     \A e \in EventsOf(resp.week) :
        LET g == games[e] IN
        /\ g.status # "post" => (g.winner_team_id = NULL /\ e \notin DOMAIN resp.results)
        /\ (g.status = "post" /\ g.home_score = g.away_score)
             => (g.winner_team_id = NULL /\ e \notin DOMAIN resp.results)
        /\ (g.status = "post" /\ g.home_score > g.away_score)
             => (g.winner_team_id = g.home_team_id
                 /\ e \in DOMAIN resp.results /\ resp.results[e] = "home")
        /\ (g.status = "post" /\ g.home_score < g.away_score)
             => (g.winner_team_id = g.away_team_id
                 /\ e \in DOMAIN resp.results /\ resp.results[e] = "away")

\* a refresh has just stored one event that is under way with one side
\* ahead and one event that is final with the away side ahead
C9_Witness ==
  /\ resp.op = "updateResults"
  /\ resp.code = 200
  /\ \E e1, e2 \in EventsOf(resp.week) :
       /\ games[e1].status = "in"
       /\ games[e1].home_score # games[e1].away_score
       /\ games[e2].status = "post"
       /\ games[e2].home_score < games[e2].away_score

\* the rows of a form with exactly one input filled, and the value filled in
Filled(rows) ==
  {i \in 1..Len(rows) : (rows[i].home = Blank) # (rows[i].away = Blank)}
ValueAt(rows, i) == IF rows[i].home # Blank THEN rows[i].home ELSE rows[i].away

\* the reason the rules give, taken in order: one side per event, then
\* distinct values, then membership of the legal values of the event count
FirstFailingRule(rows) ==
  IF \E i \in 1..Len(rows) : rows[i].home # Blank /\ rows[i].away # Blank
  THEN "Choose only one team per game."
  ELSE IF \E i, j \in Filled(rows) : i # j /\ ValueAt(rows, i) = ValueAt(rows, j)
  THEN "Each confidence value must appear only once."
  ELSE IF \E i \in Filled(rows) : ValueAt(rows, i) \notin LegalValues(Len(rows))
  THEN "Confidence must be between min and max."
  ELSE "none"

C13_RefreshIdempotent ==
  [][(/\ nreq' # nreq
      /\ resp'.op = "updateResults"
      /\ resp'.code = 200
      /\ req'.again)
     => (/\ games' = games
         /\ \A w \in Weeks : Scoreboard(w)' = Scoreboard(w))]_vars

\* a refresh has just been repeated on a period in which a user holds a
\* credited pick and an event is final with a winner
C13_Witness ==
  /\ req.logged
  /\ req.again
  /\ resp.op = "updateResults"
  /\ resp.code = 200
  /\ \E u \in DOMAIN Scoreboard(req.week) : Scoreboard(req.week)[u] > 0
  /\ \E e \in EventsOf(req.week) : games[e].status = "in"

\* C14: in the background sweep a provider failure while refreshing one
\* period leaves that period's stored events unchanged, changes no other
\* period's stored events, and does not stop the sweep: the sweep goes on
\* to the next period and ends after the last.
C14_SweepSkipsFailedPeriod ==
  [][(sweep.week # 0 /\ sweep' # sweep)
     => (/\ sweep'.week = (IF sweep.week < NumWeeks THEN sweep.week + 1 ELSE 0)
         /\ sweep'.runs = sweep.runs
         /\ \A e \in DOMAIN games' :
               (e \notin DOMAIN games \/ games'[e] # games[e]) => games'[e].week = sweep.week
         /\ (sweep'.last = "failed" => games' = games))]_vars

\* the events stored for a period
StoredEvents(w) == {e \in DOMAIN games : games[e].season = Season /\ games[e].week = w}

\* C15: GET events asks the provider and writes events only on first access
\* of a never-seen period: while a period has stored events, from an earlier
\* GET events or from a refresh that ran to its end, no GET events starts a
\* provider call for it, and a GET events answered from the store changes no
\* stored event.
C15_StoredPeriodServedFromStore ==
  [][/\ \A w \in Weeks :
          (StoredEvents(w) # {} /\ w \in DOMAIN weekFetch) => pending'[w] <= pending[w]
     /\ (nreq' # nreq /\ resp'.op = "getGames" /\ resp' # resp) => games' = games]_vars

====
